---- MODULE Spec2Model ----
(***************************************************************************)
(* RPKI manifests (src/src/manifest.rs): decoding of the manifest content, *)
(* the lazy per-entry iterator over the captured file list, and the digest *)
(* verifier.                                                               *)
(*                                                                         *)
(* The file list is modelled at the byte level (tag, short-form length,    *)
(* content), because it is captured as raw bytes by decode and re-decoded  *)
(* by the iterator.  The header fields in front of it are modelled as a    *)
(* sequence of already delimited values (tag + value).                     *)
(***************************************************************************)
EXTENDS Integers, Sequences, FiniteSets, TLC

VARIABLES
    raw,        \* ghost: the description the input was encoded from
    source,     \* the values of the manifest content handed to decode
    result,     \* outcome of ManifestContent::decode
    skipped,    \* entries consumed by the skip_opt_in loop of decode
    iters,      \* the ManifestIter values obtained through iter_uris
    cursor,     \* entry codec: the bytes at the cursor
    skipRes,    \* entry codec: outcome of skip_opt_in on cursor
    takeRes,    \* entry codec: outcome of take_opt_from on cursor
    hash,       \* digest verifier: the ManifestHash
    vres        \* digest verifier: outcome of the last verify call

vars == <<raw, source, result, skipped, iters, cursor, skipRes, takeRes, hash, vres>>

-----------------------------------------------------------------------------
(* Bounds of the model *)

MaxEntries == 2
MaxTime == 2
MaxInputLen == 2

-----------------------------------------------------------------------------
(* Tags and sizes *)

TagSequence == 48
TagIa5String == 22
TagBitString == 3
DigestLen == 32

-----------------------------------------------------------------------------
(* Byte strings *)

Drop(b, n) == SubSeq(b, n + 1, Len(b))

Take(b, n) == SubSeq(b, 1, n)

RECURSIVE SeqsUpTo(_, _)
SeqsUpTo(S, n) ==
    IF n = 0 THEN {<<>>}
    ELSE LET shorter == SeqsUpTo(S, n - 1)
         IN  shorter \cup {Append(s, x) : s \in {t \in shorter : Len(t) = n - 1}, x \in S}

\* ring::digest::digest(&SHA256, bytes): a DigestLen-octet value, injective on
\* the inputs of the model (octets 0 and 1, length below 16).
Sha256(x) ==
    [i \in 1..DigestLen |->
        IF i = 1 THEN 16 + Len(x)
        ELSE IF i - 1 <= Len(x) THEN x[i - 1] + 1
        ELSE 0]

\* ring::constant_time::verify_slices_are_equal
verify_slices_are_equal_lenonly(a, b) == Len(a) = Len(b)

verify_slices_are_equal(a, b) ==
    /\ Len(a) = Len(b)
    /\ \A i \in 1..Len(a) : a[i] = b[i]

-----------------------------------------------------------------------------
(* The BER toolkit, as far as the manifest code uses it *)

DecErr == [res |-> "err", val |-> <<>>, rest |-> <<>>]

\* Constructed::value_if(tag, ..): a value of the given tag is required.
\* Only short-form lengths are decoded.
value_if(b, tag) ==
    IF Len(b) < 2 THEN DecErr
    ELSE IF b[1] # tag THEN DecErr
    ELSE IF b[2] > 127 \/ Len(b) < 2 + b[2] THEN DecErr
    ELSE [res |-> "ok", val |-> SubSeq(b, 3, 2 + b[2]), rest |-> Drop(b, 2 + b[2])]

\* Constructed::opt_sequence: None, with nothing consumed, at the end of the
\* content or when the next tag is not SEQUENCE.
opt_sequence(b) ==
    IF Len(b) = 0 \/ b[1] # TagSequence
    THEN [res |-> "none", val |-> <<>>, rest |-> b]
    ELSE value_if(b, TagSequence)

\* BitString::skip_in: a BIT STRING value is skipped, its content discarded.
BitString_skip_in(b) ==
    LET v == value_if(b, TagBitString)
    IN  IF v.res = "err" THEN [res |-> "err", rest |-> <<>>]
        ELSE [res |-> "ok", rest |-> v.rest]

\* BitString::take_from: the first content octet is the number of unused
\* bits, the remaining octets are the bits.
BitString_take_from(b) ==
    LET v == value_if(b, TagBitString)
    IN  IF v.res = "err" \/ Len(v.val) = 0
        THEN [res |-> "err", rest |-> <<>>, unused |-> 0, bits |-> <<>>]
        ELSE [res |-> "ok", rest |-> v.rest, unused |-> v.val[1], bits |-> Tail(v.val)]

\* BitString::octet_slice: the octets, if there are no unused bits.
octet_slice(h) == IF h.unused # 0 THEN {} ELSE {h.bits}

-----------------------------------------------------------------------------
(* FileAndHash *)

SkipRes(r, rest) == [res |-> r, rest |-> rest]

skip_opt_in(b) ==
    LET s == opt_sequence(b)
    IN  IF s.res = "none" THEN SkipRes("none", b)
        ELSE IF s.res = "err" THEN SkipRes("err", <<>>)
        ELSE LET f == value_if(s.val, TagIa5String)
             IN  IF f.res = "err" THEN SkipRes("err", <<>>)
                 ELSE LET h == BitString_skip_in(f.rest)
                      IN  IF h.res = "err" \/ h.rest # <<>> THEN SkipRes("err", <<>>)
                          ELSE SkipRes("ok", s.rest)

NoHash == [unused |-> 0, bits |-> <<>>]

TakeRes(r, rest, file, h) == [res |-> r, rest |-> rest, file |-> file, hash |-> h]

take_opt_from(b) ==
    LET s == opt_sequence(b)
    IN  IF s.res = "none" THEN TakeRes("none", b, <<>>, NoHash)
        ELSE IF s.res = "err" THEN TakeRes("err", <<>>, <<>>, NoHash)
        ELSE LET f == value_if(s.val, TagIa5String)
             IN  IF f.res = "err" THEN TakeRes("err", <<>>, <<>>, NoHash)
                 ELSE LET h == BitString_take_from(f.rest)
                      IN  IF h.res = "err" \/ h.rest # <<>>
                          THEN TakeRes("err", <<>>, <<>>, NoHash)
                          ELSE TakeRes("ok", s.rest, f.val,
                                       [unused |-> h.unused, bits |-> h.bits])

-----------------------------------------------------------------------------
(* FileAndHash::to_uri_etc *)

\* std::str::from_utf8 on the octets of the model: an octet below 128 is a
\* one-octet character, octet 255 occurs in no UTF-8 encoding.
from_utf8_ok(name) == \A i \in 1..Len(name) : name[i] < 128

\* rsync::Uri::join: the name is appended to the base; a name with an octet
\* that is no visible ASCII character is refused.
join_ok(name) == \A i \in 1..Len(name) : name[i] > 32 /\ name[i] < 127

join(base, name) == base \o name

ItemErr == [ok |-> FALSE, uri |-> <<>>, hash |-> NoHash]

ItemOk(uri, h) == [ok |-> TRUE, uri |-> uri, hash |-> h]

to_uri_etc_abort(file, h, base) ==
    IF ~from_utf8_ok(file) THEN ItemErr
    ELSE ItemOk(join(base, file), h)

to_uri_etc(file, h, base) ==
    IF ~from_utf8_ok(file) THEN ItemErr
    ELSE IF ~join_ok(file) THEN ItemErr
    ELSE ItemOk(join(base, file), h)

-----------------------------------------------------------------------------
(* ManifestContent::decode *)

StepFail == [ok |-> FALSE, val |-> 0, toks |-> <<>>]

StepOk(v, toks) == [ok |-> TRUE, val |-> v, toks |-> toks]

\* cons.opt_primitive_if(Tag::CTX_0, ..): the version, if present, must be 0.
version_step(toks) ==
    IF Len(toks) > 0 /\ Head(toks).tag = "CTX_0"
    THEN IF Head(toks).val # 0 THEN StepFail ELSE StepOk(0, Tail(toks))
    ELSE StepOk(0, toks)

\* cons.take_unsigned(): an INTEGER that is not negative.
take_unsigned(toks) ==
    IF Len(toks) = 0 THEN StepFail
    ELSE IF Head(toks).tag # "INTEGER" THEN StepFail
    ELSE IF Head(toks).val < 0 THEN StepFail
    ELSE StepOk(Head(toks).val, Tail(toks))

\* Time::take_from(cons)
Time_take_from(toks) ==
    IF Len(toks) = 0 THEN StepFail
    ELSE IF Head(toks).tag # "TIME" THEN StepFail
    ELSE StepOk(Head(toks).val, Tail(toks))

\* Oid::skip_if(cons): an OBJECT IDENTIFIER equal to the given one is required.
oid_skip_if(toks, oid) ==
    IF Len(toks) = 0 THEN StepFail
    ELSE IF Head(toks).tag # "OID" THEN StepFail
    ELSE IF Head(toks).val # oid THEN StepFail
    ELSE StepOk(0, Tail(toks))

update_order_violated_ge(this_update, next_update) == this_update >= next_update

\* if this_update > next_update { return Err(Malformed) }
update_order_violated(this_update, next_update) == this_update > next_update

digest_alg_step_any(toks) ==
    IF Len(toks) > 0 /\ Head(toks).tag = "OID" THEN StepOk(0, Tail(toks))
    ELSE StepOk(0, toks)

\* sigobj::oid::SHA256.skip_if(cons)?
digest_alg_step(toks) == oid_skip_if(toks, "SHA256")

\* while let Some(()) = FileAndHash::skip_opt_in(cons)? { }
RECURSIVE skip_loop(_, _)
skip_loop(b, n) ==
    LET r == skip_opt_in(b)
    IN  IF r.res = "ok" THEN skip_loop(r.rest, n + 1)
        ELSE [res |-> r.res, rest |-> r.rest, count |-> n]

\* cons.sequence(|cons| cons.capture(|cons| loop)): the bytes the loop
\* consumed are captured; the sequence must then be at its end.
file_list_step(toks) ==
    IF Len(toks) = 0 THEN StepFail
    ELSE IF Head(toks).tag # "SEQUENCE" THEN StepFail
    ELSE LET b == Head(toks).val
             l == skip_loop(b, 0)
         IN  IF l.res = "err" THEN StepFail
             ELSE IF l.rest # <<>> THEN StepFail
             ELSE StepOk([file_list |-> Take(b, Len(b) - Len(l.rest)),
                          count |-> l.count], Tail(toks))

Malformed == [status |-> "Malformed", content |-> {}, skipped |-> 0]

ManifestContent_decode(toks) ==
    LET v == version_step(toks) IN
    IF ~v.ok THEN Malformed ELSE
    LET n == take_unsigned(v.toks) IN
    IF ~n.ok THEN Malformed ELSE
    LET t == Time_take_from(n.toks) IN
    IF ~t.ok THEN Malformed ELSE
    LET u == Time_take_from(t.toks) IN
    IF ~u.ok THEN Malformed ELSE
    IF update_order_violated(t.val, u.val) THEN Malformed ELSE
    LET a == digest_alg_step(u.toks) IN
    IF ~a.ok THEN Malformed ELSE
    LET f == file_list_step(a.toks) IN
    IF ~f.ok THEN Malformed ELSE
    IF Len(f.toks) # 0 THEN Malformed ELSE
    [status |-> "ok",
     content |-> {[manifest_number |-> n.val, this_update |-> t.val,
                   next_update |-> u.val, file_list |-> f.val.file_list]},
     skipped |-> f.val.count]

-----------------------------------------------------------------------------
(* ManifestIter *)

BaseUri == <<114, 47>>

UnbornIter == [state |-> "unborn", base |-> <<>>, file_list |-> <<>>,
               out |-> <<>>, last |-> "-"]

\* ManifestContent::iter_uris
iter_uris(content, base) ==
    [state |-> "live", base |-> base, file_list |-> content.file_list,
     out |-> <<>>, last |-> "-"]

ManifestIter_next_stuck(it) ==
    LET r == take_opt_from(it.file_list)
    IN  IF r.res = "err" THEN [it EXCEPT !.state = "panicked", !.last = "panic"]
        ELSE IF r.res = "none" THEN [it EXCEPT !.last = "none"]
        ELSE [it EXCEPT !.out = Append(@, to_uri_etc(r.file, r.hash, it.base)),
                        !.last = "some"]

ManifestIter_next_drain(it) ==
    LET r == take_opt_from(it.file_list)
    IN  IF r.res = "err" THEN [it EXCEPT !.state = "panicked", !.last = "panic"]
        ELSE IF r.res = "none" THEN [it EXCEPT !.last = "none"]
        ELSE [it EXCEPT !.file_list = <<>>,
                        !.out = Append(@, to_uri_etc(r.file, r.hash, it.base)),
                        !.last = "some"]

\* ManifestIter::next: the decode result is unwrapped, so a decode error
\* aborts; otherwise the cursor moves past the entry taken.
ManifestIter_next(it) ==
    LET r == take_opt_from(it.file_list)
    IN  IF r.res = "err" THEN [it EXCEPT !.state = "panicked", !.last = "panic"]
        ELSE IF r.res = "none" THEN [it EXCEPT !.last = "none"]
        ELSE [it EXCEPT !.file_list = r.rest,
                        !.out = Append(@, to_uri_etc(r.file, r.hash, it.base)),
                        !.last = "some"]

-----------------------------------------------------------------------------
(* ManifestHash::verify *)

verify(h, bytes) ==
    LET o == octet_slice(h)
    IN  IF o = {} THEN "panic"
        ELSE IF verify_slices_are_equal(CHOOSE x \in o : TRUE, Sha256(bytes))
             THEN "ok"
             ELSE "err"

-----------------------------------------------------------------------------
(* Inputs: a manifest content is described by a record and encoded *)

NameGood == <<97>>
NameBadUtf8 == <<255>>
NameBadJoin == <<32>>
Names == {NameGood, NameBadUtf8, NameBadJoin}

Inputs == SeqsUpTo({0, 1}, MaxInputLen)

GoodBits == <<0>> \o Sha256(<<>>)
EmptyBits == <<>>
UnusedBits == <<1>> \o Sha256(<<>>)
ShortBits == <<0, 7>>

GoodEntry == [nameTag |-> TagIa5String, name |-> NameGood, bits |-> GoodBits]
EmptyBitsEntry == [nameTag |-> TagIa5String, name |-> NameGood, bits |-> EmptyBits]
\* the name under tag 4 (OCTET STRING) instead of IA5String
WrongTagEntry == [nameTag |-> 4, name |-> NameGood, bits |-> GoodBits]

IterEntries ==
    [nameTag : {TagIa5String}, name : Names,
     bits : {GoodBits, EmptyBits, UnusedBits, ShortBits}]
    \cup {WrongTagEntry}

EncTLV(tag, content) == <<tag, Len(content)>> \o content

EncEntry(e) ==
    EncTLV(TagSequence, EncTLV(e.nameTag, e.name) \o EncTLV(TagBitString, e.bits))

RECURSIVE EncList(_)
EncList(es) == IF Len(es) = 0 THEN <<>> ELSE EncEntry(Head(es)) \o EncList(Tail(es))

Garbage == <<5, 0>>

EncodeSource(r) ==
    (IF r.version = -1 THEN <<>> ELSE <<[tag |-> "CTX_0", val |-> r.version]>>)
    \o <<[tag |-> "INTEGER", val |-> r.number],
         [tag |-> "TIME", val |-> r.this_update],
         [tag |-> "TIME", val |-> r.next_update]>>
    \o (IF r.alg = "absent" THEN <<>> ELSE <<[tag |-> "OID", val |-> r.alg]>>)
    \o <<[tag |-> "SEQUENCE",
          val |-> EncList(r.entries) \o (IF r.garbage THEN Garbage ELSE <<>>)]>>
    \o (IF r.trailing THEN <<[tag |-> "NULL", val |-> 0]>> ELSE <<>>)

WellFormedEntry(e) == e.nameTag = TagIa5String /\ Len(e.bits) >= 1

WellFormedList(es) == \A i \in 1..Len(es) : WellFormedEntry(es[i])

OtherwiseValid(r) ==
    /\ r.version \in {-1, 0}
    /\ r.number >= 0
    /\ r.alg = "SHA256"
    /\ WellFormedList(r.entries)
    /\ ~r.garbage
    /\ ~r.trailing

-----------------------------------------------------------------------------
(* State *)

Pending == [status |-> "pending", content |-> {}]

NoRaw == [version |-> -1, number |-> 1, this_update |-> 0, next_update |-> 0,
          alg |-> "SHA256", entries |-> <<>>, garbage |-> FALSE, trailing |-> FALSE]

NoProbe == [res |-> "-", rest |-> <<>>]

NoVerify == [input |-> <<>>, res |-> "-"]

Iters == 1..2

InitManifest(r) ==
    /\ raw = r
    /\ source = EncodeSource(r)
    /\ result = Pending
    /\ skipped = 0
    /\ iters = [i \in Iters |-> UnbornIter]
    /\ cursor = <<>>
    /\ skipRes = NoProbe
    /\ takeRes = NoProbe
    /\ hash = NoHash
    /\ vres = NoVerify

InitDecode ==
    \E r \in [version : {-1, 0, 1}, number : {-1, 1},
              this_update : 0..MaxTime, next_update : 0..MaxTime,
              alg : {"absent", "SHA256", "SHA1"},
              entries : {<<>>, <<GoodEntry>>, <<GoodEntry, EmptyBitsEntry>>,
                         <<WrongTagEntry>>},
              garbage : BOOLEAN, trailing : BOOLEAN] : InitManifest(r)

InitIter ==
    \E r \in [version : {-1}, number : {1}, this_update : {0}, next_update : {1},
              alg : {"SHA256"}, entries : SeqsUpTo(IterEntries, MaxEntries),
              garbage : BOOLEAN, trailing : {FALSE}] : InitManifest(r)

CodecInputs ==
    LET lists == {EncList(es) : es \in SeqsUpTo(IterEntries, MaxEntries)}
    IN  lists \cup {l \o Garbage : l \in lists}
              \cup {Take(l, Len(l) - 1) : l \in {m \in lists : Len(m) > 0}}
              \cup {Garbage \o l : l \in lists}

InitCodec ==
    /\ raw = NoRaw
    /\ source = <<>>
    /\ result = Pending
    /\ skipped = 0
    /\ iters = [i \in Iters |-> UnbornIter]
    /\ cursor \in CodecInputs
    /\ skipRes = NoProbe
    /\ takeRes = NoProbe
    /\ hash = NoHash
    /\ vres = NoVerify

\* The digests an entry can carry: whatever BitString::take_from accepts.
HashContents ==
    {<<u>> \o b : u \in {0, 1},
                  b \in {Sha256(x) : x \in Inputs}
                        \cup {<<>>, <<7>>, Sha256(<<>>) \o <<0>>}}

InitVerify ==
    /\ raw = NoRaw
    /\ source = <<>>
    /\ result = Pending
    /\ skipped = 0
    /\ iters = [i \in Iters |-> UnbornIter]
    /\ cursor = <<>>
    /\ skipRes = NoProbe
    /\ takeRes = NoProbe
    /\ \E c \in HashContents :
          LET h == BitString_take_from(EncTLV(TagBitString, c))
          IN  hash = [unused |-> h.unused, bits |-> h.bits]
    /\ vres = NoVerify

-----------------------------------------------------------------------------
(* Actions *)

Aborted == (\E i \in Iters : iters[i].state = "panicked") \/ vres.res = "panic"

\* Manifest::decode, as far as it runs ManifestContent::decode
Decode ==
    /\ result.status = "pending"
    /\ LET d == ManifestContent_decode(source)
       IN  /\ result' = [status |-> d.status, content |-> d.content]
           /\ skipped' = d.skipped
    /\ UNCHANGED <<raw, source, iters, cursor, skipRes, takeRes, hash, vres>>

IterUris(i) ==
    /\ ~Aborted
    /\ result.status = "ok"
    /\ iters[i].state = "unborn"
    /\ \E c \in result.content :
          iters' = [iters EXCEPT ![i] = iter_uris(c, BaseUri)]
    /\ UNCHANGED <<raw, source, result, skipped, cursor, skipRes, takeRes, hash, vres>>

IterNext(i) ==
    /\ ~Aborted
    /\ iters[i].state = "live"
    /\ iters' = [iters EXCEPT ![i] = ManifestIter_next(iters[i])]
    /\ UNCHANGED <<raw, source, result, skipped, cursor, skipRes, takeRes, hash, vres>>

ProbeSkip ==
    /\ skipRes.res = "-"
    /\ skipRes' = skip_opt_in(cursor)
    /\ UNCHANGED <<raw, source, result, skipped, iters, cursor, takeRes, hash, vres>>

ProbeTake ==
    /\ takeRes.res = "-"
    /\ LET t == take_opt_from(cursor)
       IN  takeRes' = [res |-> t.res, rest |-> t.rest]
    /\ UNCHANGED <<raw, source, result, skipped, iters, cursor, skipRes, hash, vres>>

Verify(bytes) ==
    /\ ~Aborted
    /\ vres' = [input |-> bytes, res |-> verify(hash, bytes)]
    /\ UNCHANGED <<raw, source, result, skipped, iters, cursor, skipRes, takeRes, hash>>

NextDecode == Decode

NextIter ==
    \/ Decode
    \/ \E i \in Iters : IterUris(i)
    \/ \E i \in Iters : IterNext(i)

NextCodec == ProbeSkip \/ ProbeTake

NextVerify == \E bytes \in Inputs : Verify(bytes)

SpecDecode == InitDecode /\ [][NextDecode]_vars

SpecIter == InitIter /\ [][NextIter]_vars

SpecCodec == InitCodec /\ [][NextCodec]_vars

SpecVerify == InitVerify /\ [][NextVerify]_vars

-----------------------------------------------------------------------------
(* What the entries of the input stand for, independently of the decoder *)

BadName(e) == e.name \in {NameBadUtf8, NameBadJoin}

ExpectedItem(e) ==
    IF BadName(e) THEN ItemErr
    ELSE ItemOk(BaseUri \o e.name, [unused |-> e.bits[1], bits |-> Tail(e.bits)])

Remaining(es, k) == EncList(SubSeq(es, k + 1, Len(es)))

RECURSIVE Drain(_)
Drain(it) ==
    LET n == ManifestIter_next(it)
    IN  IF n.last = "some" /\ Len(n.file_list) < Len(it.file_list) THEN Drain(n)
        ELSE n.out

DrainItems(b) == Drain([state |-> "live", base |-> BaseUri, file_list |-> b,
                        out |-> <<>>, last |-> "-"])

-----------------------------------------------------------------------------
(* Claims *)

\* C1: for an otherwise valid manifest content, decode succeeds exactly when
\* thisUpdate <= nextUpdate; with thisUpdate > nextUpdate it fails Malformed;
\* every ManifestContent that exists has this_update <= next_update.
C1_UpdateOrder ==
    result.status # "pending" =>
        /\ OtherwiseValid(raw) =>
              (result.status = "ok" <=> raw.this_update <= raw.next_update)
        /\ raw.this_update > raw.next_update => result.status = "Malformed"
        /\ \A c \in result.content : c.this_update <= c.next_update

C1_Witness ==
    /\ OtherwiseValid(raw)
    /\ raw.this_update > raw.next_update
    /\ result.status = "Malformed"

\* C2: a decode failure on the captured bytes makes next() return an error
\* item; no call of next() aborts the process.
C2_NextNeverAborts ==
    \A i \in Iters : iters[i].state # "panicked" /\ iters[i].last # "panic"

\* C3: for a digest with unused bits or a length other than 256 bits, verify
\* returns Err(ValidationError) for every input and never panics.
C3_BadDigestShape ==
    vres.res # "-" /\ (hash.unused # 0 \/ 8 * Len(hash.bits) # 256)
        => vres.res = "err"

\* C4: for a well-formed entry list, the skip_opt_in loop of decode consumes
\* as many entries as a drained ManifestIter produces items.
C4_SkipCountIsIterCount ==
    result.status = "ok" /\ WellFormedList(raw.entries) =>
        \A i \in Iters : iters[i].last = "none" => Len(iters[i].out) = skipped

C4_Witness ==
    /\ WellFormedList(raw.entries)
    /\ skipped = MaxEntries
    /\ \E i \in Iters : iters[i].last = "none" /\ Len(iters[i].out) = MaxEntries

\* C5: two iterators over the same ManifestContent, under any interleaving,
\* each produce the items of the entries in the order of the file list; a
\* step of one changes neither the other nor the ManifestContent.
C5_InOrder ==
    \A i \in Iters :
        /\ Len(iters[i].out) <= Len(raw.entries)
        /\ \A j \in 1..Len(iters[i].out) :
              iters[i].out[j] = ExpectedItem(raw.entries[j])

C5_Independent ==
    \A i \in Iters : iters'[i] # iters[i] =>
        /\ \A j \in Iters \ {i} : iters'[j] = iters[j]
        /\ result' = result

C5_ConcurrentIteration == []C5_InOrder /\ [][C5_Independent]_vars

C5_Witness ==
    /\ Len(iters[1].out) = MaxEntries
    /\ iters[2].out = iters[1].out
    /\ iters[1].last = "none"
    /\ iters[2].last = "some"

\* C6: an entry whose name is not UTF-8 or cannot be joined yields
\* Err(ValidationError) for that entry only; the cursor is past it and the
\* later items are those of the same list with that name valid.
C6_PerEntryError ==
    \A i \in Iters : \A j \in 1..Len(iters[i].out) :
        BadName(raw.entries[j]) =>
            /\ ~iters[i].out[j].ok
            /\ iters[i].file_list = Remaining(raw.entries, Len(iters[i].out))
            /\ LET fixed == [raw.entries EXCEPT ![j].name = NameGood]
                   items == DrainItems(EncList(fixed))
               IN  \A k \in (j + 1)..Len(iters[i].out) :
                      k <= Len(items) /\ iters[i].out[k] = items[k]

C6_Witness ==
    \E i \in Iters :
        /\ Len(iters[i].out) = 2
        /\ BadName(raw.entries[1])
        /\ ~iters[i].out[1].ok
        /\ iters[i].out[2].ok

\* C7: with a well-formed 256-bit digest of X, verify(X) is Ok and verify(Y)
\* is Err(ValidationError) for every Y # X.
C7_VerifyDigest ==
    \A x \in Inputs :
        hash = [unused |-> 0, bits |-> Sha256(x)] /\ vres.res # "-" =>
            /\ vres.input = x => vres.res = "ok"
            /\ vres.input # x => vres.res = "err"

C7_Witness ==
    /\ hash = [unused |-> 0, bits |-> Sha256(<<0>>)]
    /\ vres.input = <<1>>
    /\ vres.res = "err"

\* C8: with the digest algorithm absent or not SHA-256, decode fails
\* Malformed and produces no ManifestContent.
C8_DigestAlgorithm ==
    result.status # "pending" /\ raw.alg # "SHA256" =>
        result.status = "Malformed" /\ result.content = {}

C8_Witness ==
    /\ raw.alg = "SHA1"
    /\ OtherwiseValid([raw EXCEPT !.alg = "SHA256"])
    /\ raw.this_update <= raw.next_update
    /\ result.status = "Malformed"

\* C9: a next() that yields an item strictly shortens the remaining bytes; an
\* iterator yields at most as many items as there are entries and, having
\* yielded that many, returns None; after None every next() returns None and
\* changes nothing.
C9_Bounded ==
    \A i \in Iters : iters[i].state = "live" =>
        /\ Len(iters[i].out) <= Len(raw.entries)
        /\ Len(iters[i].out) = Len(raw.entries) =>
              ManifestIter_next(iters[i]).last = "none"
        /\ iters[i].last = "none" => ManifestIter_next(iters[i]) = iters[i]

C9_Step ==
    \A i \in Iters :
        /\ Len(iters'[i].out) > Len(iters[i].out) =>
              Len(iters'[i].file_list) < Len(iters[i].file_list)
        /\ iters[i].last = "none" => iters'[i] = iters[i]

C10_ModesAgree ==
    skipRes.res # "-" /\ takeRes.res # "-" =>
        /\ skipRes.res = takeRes.res
        /\ skipRes.res = "ok" => skipRes.rest = takeRes.rest

====
